---- MODULE Spec2Model ----
(***************************************************************************)
(* A model of paint.js: the canvas surface, the 2D context, the tool       *)
(* dispatch on mousedown, trackDrag sessions and the Fill tool.            *)
(***************************************************************************)
EXTENDS Integers, Sequences, FiniteSets, TLC

(***************************************************************************)
(* Bounds of the model.                                                    *)
(***************************************************************************)
\* most pixels of the surfaces Fill is examined on exhaustively
MaxPixels == 4
\* side of the square surfaces of the two Fill scenarios
ScenarioSize == 5
\* mousemove events delivered after one primary press
MaxMoves == 2
\* largest canvas width and height the helper functions are applied to
MaxSize == 2

(***************************************************************************)
(* The canvas createPaint creates (paint.js 66), 500 x 300 there and       *)
(* scaled down to one pixel here.                                          *)
(***************************************************************************)
InitW == 1
InitH == 1

(***************************************************************************)
(* Colors (paint.js 459-464, 571-576).                                     *)
(***************************************************************************)
Color(r, g, b, a) == [r |-> r, g |-> g, b |-> b, a |-> a]

Transparent == Color(0, 0, 0, 0)
Black == Color(0, 0, 0, 255)
White == Color(255, 255, 255, 255)
Red == Color(255, 0, 0, 255)
Blue == Color(0, 0, 255, 255)

\* equals without the comparison of the alpha channel
ColorEqualsNoAlpha(c, other) == c.r = other.r /\ c.g = other.g /\ c.b = other.b

ColorEquals(c, other) ==
    c.r = other.r /\ c.g = other.g /\ c.b = other.b /\ c.a = other.a

\* 'rgb(r, g, b)': the alpha channel is not part of the string
toContextString(c) == <<"rgb", c.r, c.g, c.b>>

\* Number.prototype.toString(16) as a sequence of hexadecimal digits (0..255)
toString16(v) == IF v < 16 THEN <<v>> ELSE <<v \div 16, v % 16>>

\* ('0' + hex).slice(-2)
HexStub(v) ==
    LET stub == <<0>> \o toString16(v)
    IN  SubSeq(stub, Len(stub) - 1, Len(stub))

\* '#rrggbb'
toDOMString(c) == <<"#">> \o HexStub(c.r) \o HexStub(c.g) \o HexStub(c.b)

\* the color a 2D context stores when fillStyle/strokeStyle is assigned a
\* string: both string forms denote an opaque color
ParseStyle(s) ==
    IF s[1] = "rgb"
    THEN Color(s[2], s[3], s[4], 255)
    ELSE Color(16 * s[2] + s[3], 16 * s[4] + s[5], 16 * s[6] + s[7], 255)

(***************************************************************************)
(* Points and vectors (paint.js 536-564).                                  *)
(***************************************************************************)
Vector(x, y) == [x |-> x, y |-> y]

plus(v, other) == Vector(v.x + other.x, v.y + other.y)

directions ==
    [n |-> Vector(0, -1), e |-> Vector(1, 0), s |-> Vector(0, 1), w |-> Vector(-1, 0)]

directionNames == <<"n", "e", "s", "w">>

\* keepInCanvasBounds without its two comparisons with the canvas size
keepInCanvasBoundsLowOnly(point, w, h) ==
    Vector(IF point.x < 0 THEN 0 ELSE point.x, IF point.y < 0 THEN 0 ELSE point.y)

keepInCanvasBounds(point, w, h) ==
    LET x1 == IF point.x < 0 THEN 0 ELSE point.x
        x2 == IF point.x > w THEN w ELSE x1
        y1 == IF point.y < 0 THEN 0 ELSE point.y
        y2 == IF point.y > h THEN h ELSE y1
    IN  Vector(x2, y2)

(***************************************************************************)
(* The canvas surface: width x height RGBA pixels.                         *)
(***************************************************************************)
Coords(w, h) == {Vector(x, y) : x \in 0 .. (w - 1), y \in 0 .. (h - 1)}

InSurface(p, w, h) == p.x >= 0 /\ p.x < w /\ p.y >= 0 /\ p.y < h

Blank(w, h) == [p \in Coords(w, h) |-> Transparent]

\* cx.getImageData(x, y, 1, 1).data on a readable canvas: pixels outside the
\* canvas read as transparent black
getImageData(px, w, h, coord) ==
    IF InSurface(coord, w, h) THEN px[coord] ELSE Transparent

\* the color a pixel takes when an opaque source color is composited on it
Composite(gco, source, dest) ==
    IF gco = "destination-out" THEN Transparent ELSE source

\* cx.fillRect(x, y, wd, ht) with integer arguments: clipped to the canvas
fillRect(px, w, h, x, y, wd, ht, fillStyle, gco) ==
    [p \in Coords(w, h) |->
        IF p.x >= x /\ p.x < x + wd /\ p.y >= y /\ p.y < y + ht
        THEN Composite(gco, fillStyle, px[p])
        ELSE px[p]]

(***************************************************************************)
(* The on-screen frame of the canvas, element.getBoundingClientRect(): the *)
(* canvas is displayed at (RectLeft, RectTop) with a border of Border      *)
(* pixels on each side around its width x height buffer.                   *)
(***************************************************************************)
RectLeft == 0
RectTop == 0
Border == 0

getBoundingClientRect(w, h) ==
    [left |-> RectLeft, top |-> RectTop,
     width |-> w + 2 * Border, height |-> h + 2 * Border,
     right |-> RectLeft + w + 2 * Border, bottom |-> RectTop + h + 2 * Border]

(***************************************************************************)
(* relativePos (paint.js 117-123).  The frame values are integers, so      *)
(* xDelta is a multiple of 1/2: floor(a - d/2) = floor((2a - d) / 2).      *)
(***************************************************************************)
\* relativePos without the centering deltas
relativePosNoDelta(event, rect, w, h) ==
    Vector(event.clientX - rect.left, event.clientY - rect.top)

relativePos(event, rect, w, h) ==
    LET xDelta2 == rect.width - w
        yDelta2 == rect.height - h
    IN  Vector((2 * (event.clientX - rect.left) - xDelta2) \div 2,
               (2 * (event.clientY - rect.top) - yDelta2) \div 2)

(***************************************************************************)
(* pixelColor (paint.js 517-529).  On a canvas that is not origin-clean    *)
(* getImageData throws a SecurityError.  The catch clause evaluates        *)
(* `e instanceof SecurityError`: where the global SecurityError is not     *)
(* bound that expression throws a ReferenceError; where it is bound, alert *)
(* is called and control falls through to `data[0]` with data undefined,   *)
(* which throws a TypeError.                                               *)
(***************************************************************************)
NoError == "none"

pixelColorFailure(securityErrorBound) ==
    IF securityErrorBound
    THEN [notices |-> 1, thrown |-> "TypeError"]
    ELSE [notices |-> 0, thrown |-> "ReferenceError"]

pixelColor(px, w, h, coord) ==
    LET data == getImageData(px, w, h, coord)
    IN  Color(data.r, data.g, data.b, data.a)

(***************************************************************************)
(* tools.Fill (paint.js 587-618) on a readable canvas.  A run carries the  *)
(* surface, the `searched` object (as the set of its keys), the sequence   *)
(* of coordinates handed to pixelColor and to fillRect, the `matches` of   *)
(* the current call of flood and the number of calls of flood.             *)
(***************************************************************************)
\* 'px' + x.toString() + 'y' + y.toString()
SearchId(target) == <<"px", target.x, "y", target.y>>

\* the inner forEach without `searched[id] = true`
FloodVisitUnmarked(run, coordinate, direction) ==
    LET target == keepInCanvasBounds(plus(directions[direction], coordinate),
                                     run.w, run.h)
        targetColor == pixelColor(run.px, run.w, run.h, target)
        read == [run EXCEPT !.reads = Append(@, target)]
    IN  IF ColorEquals(targetColor, run.matchColor)
        THEN [read EXCEPT
                 !.matches = Append(@, target),
                 !.px = fillRect(@, run.w, run.h, target.x, target.y, 1, 1,
                                 run.fillStyle, run.gco),
                 !.writes = Append(@, target)]
        ELSE read

\* the body of the inner forEach (597-607) for one coordinate and direction
FloodVisit(run, coordinate, direction) ==
    LET target == keepInCanvasBounds(plus(directions[direction], coordinate),
                                     run.w, run.h)
        id == SearchId(target)
    IN  IF id \in run.searched
        THEN run
        ELSE LET targetColor == pixelColor(run.px, run.w, run.h, target)
                 marked == [run EXCEPT !.searched = @ \cup {id},
                                       !.reads = Append(@, target)]
             IN  IF ColorEquals(targetColor, run.matchColor)
                 THEN [marked EXCEPT
                          !.matches = Append(@, target),
                          !.px = fillRect(@, run.w, run.h, target.x, target.y, 1, 1,
                                          run.fillStyle, run.gco),
                          !.writes = Append(@, target)]
                 ELSE marked

\* the value of f(v), with v evaluated once
Bind(f(_), v) == CHOOSE r \in {f(x) : x \in {v}} : TRUE

\* directionNames.forEach with the last direction name missing
FloodDirectionsNoWest(run, coordinate) ==
    LET visit1(r) == FloodVisit(r, coordinate, directionNames[1])
        visit2(r) == FloodVisit(r, coordinate, directionNames[2])
        visit3(r) == FloodVisit(r, coordinate, directionNames[3])
    IN  Bind(visit3, Bind(visit2, Bind(visit1, run)))

\* directionNames.forEach for one coordinate (596-608)
FloodDirections(run, coordinate) ==
    LET visit1(r) == FloodVisit(r, coordinate, directionNames[1])
        visit2(r) == FloodVisit(r, coordinate, directionNames[2])
        visit3(r) == FloodVisit(r, coordinate, directionNames[3])
        visit4(r) == FloodVisit(r, coordinate, directionNames[4])
    IN  Bind(visit4, Bind(visit3, Bind(visit2, Bind(visit1, run))))

\* coordinates.forEach (595-609), from index i on
RECURSIVE FloodCoordinates(_, _, _)
FloodCoordinates(run, coordinates, i) ==
    IF i > Len(coordinates)
    THEN run
    ELSE LET rest(r) == FloodCoordinates(r, coordinates, i + 1)
         IN  Bind(rest, FloodDirections(run, coordinates[i]))

\* the most calls of flood, and the most coordinates handed to one call, that
\* a run is followed for
FloodLimit(w, h) == 2 * (w + 2) * (h + 2)

\* flood (592-614)
RECURSIVE flood(_, _)
flood(run, coordinates) ==
    IF \/ run.calls >= FloodLimit(run.w, run.h)
       \/ Len(coordinates) > FloodLimit(run.w, run.h)
    THEN [run EXCEPT !.status = "running"]
    ELSE LET next(after) ==
                 IF Len(after.matches) > 0
                 THEN flood(after, after.matches)
                 ELSE [after EXCEPT !.status = "returned"]
         IN  Bind(next, FloodCoordinates(
                 [run EXCEPT !.matches = <<>>, !.calls = @ + 1], coordinates, 1))

\* the handler's body (588-617), given the mapped origin
FillRun(px, w, h, origin, fillStyle, gco) ==
    LET matchColor == pixelColor(px, w, h, origin)
        start == [w |-> w, h |-> h, origin |-> origin, matchColor |-> matchColor,
                  fillStyle |-> fillStyle, gco |-> gco, before |-> px,
                  px |-> fillRect(px, w, h, origin.x, origin.y, 1, 1, fillStyle, gco),
                  searched |-> {}, reads |-> <<origin>>, writes |-> <<origin>>,
                  matches |-> <<>>, calls |-> 0, status |-> "running"]
        go(r) == flood(r, <<origin>>)
    IN  Bind(go, start)

(***************************************************************************)
(* The state of the program.                                               *)
(***************************************************************************)
VARIABLES
    width, height, pixels,  \* the canvas: its size and its bitmap
    originClean,            \* FALSE once a cross-origin image was drawn
    cx,                     \* the drawing state of the 2D context
    toolSelect,             \* value of the tools <select> (91-105)
    colorInput,             \* value of the <input type=color id=color>
    buttons,                \* the mouse buttons held down
    listeners,              \* the listeners registered on window
    drag,                   \* the variables the open trackDrag closures hold
    interval,               \* TRUE while the Spray setInterval timer runs
    placeholder,            \* the placeholder <div>s in the picture panel
    gesture,                \* history: the mouse events since the last press
    calls,                  \* history: onMove/onEnd calls since the last press
    last,                   \* history: outcome of the last mousedown listener
    fillRun,                \* history: the run of the last Fill handler
    step,                   \* history: the listener run by the last event, what it drew
    pointer,                \* history: the mapped positions of the open session
    applied                 \* history: a helper function applied to given arguments

vars == <<width, height, pixels, originClean, cx, toolSelect, colorInput, buttons,
          listeners, drag, interval, placeholder, gesture, calls, last, fillRun,
          step, pointer, applied>>

\* the keys of the tools object, in the order they are defined
ToolNames == {"Line", "Erase", "Text", "Spray", "Rectangle", "Color Matcher", "Fill"}

\* select.value: an option, or the empty string when no option is selected
SelectValues == ToolNames \cup {""}

\* the sizes offered by controls.brushSize (207), cut to the smallest ones
BrushSizes == {1, 2}

\* the colors the color input is set to by the user
InputColors == {Red}

\* event.which
Buttons == {1, 2}

\* the state of a fresh 2D context, also restored by setting canvas.width
DefaultContext ==
    [fillStyle |-> Black, strokeStyle |-> Black, lineWidth |-> 1,
     globalCompositeOperation |-> "source-over"]

NoPoint == Vector(0, 0)
NoDrag == [onMove |-> "none", onEnd |-> "none", pos |-> NoPoint, start |-> NoPoint,
           page |-> NoPoint, brush |-> 0]
NoListeners == [mousemove |-> {}, mouseup |-> {}]
\* phase: "none" before a primary press, "held" until the primary button is
\* released, then "released"; moves: the mousemove events since the press;
\* released: their number when the primary button was released; other:
\* whether another button was pressed or released while the primary was held
NoGesture == [phase |-> "none", moves |-> 0, released |-> 0, other |-> FALSE]
NoOutcome == [handler |-> "none", denied |-> FALSE, notices |-> 0,
              thrown |-> NoError, changed |-> FALSE]
NoRun == [status |-> "none"]
\* listener: "mousedown", "onMove", "end", "tick" or "load", and "none" when
\* the last event ran no listener; ops: the drawing calls it made, in order
NoStep == [listener |-> "none", ops |-> <<>>]
\* while a drag session is open: where its press was mapped to (press), and
\* the last position one of its listeners mapped an event to (last)
NoPointer == [press |-> NoPoint, last |-> NoPoint]
NoApplied == [fn |-> "none"]

\* mouse events over the canvas and anywhere in the window
CanvasEvents(w, h) ==
    LET rect == getBoundingClientRect(w, h)
    IN  {[clientX |-> x, clientY |-> y] :
            x \in rect.left .. (rect.right - 1), y \in rect.top .. (rect.bottom - 1)}

WindowEvents(w, h) ==
    LET rect == getBoundingClientRect(w, h)
    IN  {[clientX |-> x, clientY |-> y] : x \in 0 .. rect.right, y \in 0 .. rect.bottom}

(***************************************************************************)
(* trackDrag (paint.js 134-144): the two addEventListener calls, and the   *)
(* two removeEventListener calls of end.                                   *)
(***************************************************************************)
\* trackDrag without its second addEventListener call
trackDragNoEnd(ls) ==
    [mousemove |-> ls.mousemove \cup {"onMove"}, mouseup |-> ls.mouseup]

trackDrag(ls) ==
    [mousemove |-> ls.mousemove \cup {"onMove"}, mouseup |-> ls.mouseup \cup {"end"}]

\* end without its second removeEventListener call
endRemoveMousemoveOnly(ls) ==
    [mousemove |-> ls.mousemove \ {"onMove"}, mouseup |-> ls.mouseup]

\* end without its first removeEventListener call
endRemoveMouseupOnly(ls) ==
    [mousemove |-> ls.mousemove, mouseup |-> ls.mouseup \ {"end"}]

endRemove(ls) ==
    [mousemove |-> ls.mousemove \ {"onMove"}, mouseup |-> ls.mouseup \ {"end"}]

\* `if(onEnd)`: whether the tool passed an onEnd function to trackDrag
OnEndSupplied(d) == d.onEnd # "none"

Init ==
    /\ width = InitW
    /\ height = InitH
    /\ pixels = Blank(InitW, InitH)
    /\ originClean = TRUE
    /\ cx = DefaultContext
    /\ toolSelect = "Line"
    /\ colorInput = toDOMString(Black)
    /\ buttons = {}
    /\ listeners = NoListeners
    /\ drag = NoDrag
    /\ interval = FALSE
    /\ placeholder = <<>>
    /\ gesture = NoGesture
    /\ calls = <<>>
    /\ last = NoOutcome
    /\ fillRun = NoRun
    /\ step = NoStep
    /\ pointer = NoPointer
    /\ applied = NoApplied

(***************************************************************************)
(* Drawing calls whose rasterization belongs to the canvas implementation  *)
(* (cx.stroke, cx.fillText, cx.fillRect at fractional coordinates): the    *)
(* pixels of the canvas that the shape touches each either take the        *)
(* composited color or keep their own.                                     *)
(***************************************************************************)
Min(a, b) == IF a < b THEN a ELSE b
Max(a, b) == IF a > b THEN a ELSE b

\* the pixels touched by the box spanned by a and b, grown by reach2 / 2
Touched(w, h, a, b, reach2) ==
    {p \in Coords(w, h) :
        /\ 2 * (p.x + 1) > 2 * Min(a.x, b.x) - reach2
        /\ 2 * p.x < 2 * Max(a.x, b.x) + reach2
        /\ 2 * (p.y + 1) > 2 * Min(a.y, b.y) - reach2
        /\ 2 * p.y < 2 * Max(a.y, b.y) + reach2}

Rasterized(px, touched, color, gco) ==
    {[p \in DOMAIN px |-> IF p \in painted THEN Composite(gco, color, px[p]) ELSE px[p]] :
        painted \in SUBSET touched}

\* beginPath, moveTo, lineTo, stroke (158-162)
stroke(px, w, h, from, to, c) ==
    Rasterized(px, Touched(w, h, from, to, c.lineWidth), c.strokeStyle,
               c.globalCompositeOperation)

\* fillText (320-321): the glyphs start at pos and extend right of it and
\* around the baseline by the font size, Math.max(7, cx.lineWidth)
fillText(px, w, h, pos, c) ==
    Rasterized(px, Touched(w, h, pos, Vector(w, pos.y), 2 * Max(7, c.lineWidth)),
               c.fillStyle, c.globalCompositeOperation)

\* one tick of the Spray timer (340-344): dotsPerTick 1 x 1 rectangles at
\* currentPos plus an offset within radius = brush / 2
sprayDots(px, w, h, currentPos, brush, c) ==
    Rasterized(px, Touched(w, h, currentPos, plus(currentPos, Vector(1, 1)), brush),
               c.fillStyle, c.globalCompositeOperation)

(***************************************************************************)
(* rectangleFromPoints (420-425) and keepInBounds (438-448).               *)
(***************************************************************************)
Abs(v) == IF v < 0 THEN -v ELSE v

\* rectangleFromPoints taking the first point for the top-left corner
rectangleFromFirstPoint(a, b) ==
    [left |-> a.x, top |-> a.y, width |-> Abs(a.x - b.x), height |-> Abs(a.y - b.y)]

rectangleFromPoints(a, b) ==
    [left |-> Min(a.x, b.x), top |-> Min(a.y, b.y),
     width |-> Abs(a.x - b.x), height |-> Abs(a.y - b.y)]

keepInBounds(point, rect) ==
    LET x1 == IF point.x < rect.left THEN rect.left ELSE point.x
        x2 == IF point.x > rect.right THEN rect.right ELSE x1
        y1 == IF point.y < rect.top THEN rect.top ELSE point.y
        y2 == IF point.y > rect.bottom THEN rect.bottom ELSE y1
    IN  Vector(x2, y2)

(***************************************************************************)
(* The mousedown listener of controls.tools (97-102).                      *)
(***************************************************************************)
Pos(e) == relativePos(e, getBoundingClientRect(width, height), width, height)

\* what the listener's run left behind, for the history variable `last`
Outcome(handler, denied, notices, thrown) ==
    [handler |-> handler, denied |-> denied, notices |-> notices, thrown |-> thrown,
     changed |-> <<width', height', pixels', cx', colorInput', listeners', interval',
                   placeholder'>>
                 # <<width, height, pixels, cx, colorInput, listeners, interval,
                     placeholder>>]

\* the drawing calls, as the history variable `step` records them
StrokeOp(from, to, c) ==
    [op |-> "stroke", from |-> from, to |-> to, gco |-> c.globalCompositeOperation]
FillRectOp(rect, c) ==
    [op |-> "fillRect", rect |-> rect, gco |-> c.globalCompositeOperation]
FillTextOp(c) == [op |-> "fillText", gco |-> c.globalCompositeOperation]
SprayOp(currentPos, c) ==
    [op |-> "spray", center |-> currentPos, gco |-> c.globalCompositeOperation]
FillOp(c) == [op |-> "fill", gco |-> c.globalCompositeOperation]

\* the mousedown listener ran for a primary press and made the calls `ops`
MouseDown(ops) == step' = [listener |-> "mousedown", which |-> 1, ops |-> ops]

\* the mousedown listener ran for a primary press, read the pixel at coord
\* of the bitmap `before` and got `color`
MouseDownRead(before, coord, color) ==
    step' = [listener |-> "mousedown", which |-> 1, ops |-> <<>>,
             read |-> [before |-> before, coord |-> coord, color |-> color]]

\* a primary-button press over the canvas with tool `name` selected; the
\* history of a gesture is kept when the handler opens a drag session
Dispatch(e, name, opens) ==
    /\ e \in CanvasEvents(width, height)
    /\ 1 \notin buttons
    /\ toolSelect = name
    /\ buttons' = buttons \cup {1}
    /\ gesture' = IF opens THEN [NoGesture EXCEPT !.phase = "held"] ELSE NoGesture
    /\ calls' = <<>>
    /\ pointer' = IF opens THEN [press |-> Pos(e), last |-> Pos(e)] ELSE NoPointer
    /\ applied' = applied

\* tools.Line (153-164), with the onEnd the caller passes
LineHandler(e, onEnd, c) ==
    /\ cx' = c
    /\ drag' = [NoDrag EXCEPT !.onMove = "Line", !.onEnd = onEnd, !.pos = Pos(e)]
    /\ listeners' = trackDrag(listeners)

PressLine(e) ==
    /\ Dispatch(e, "Line", TRUE)
    /\ LineHandler(e, "none", cx)
    /\ fillRun' = NoRun
    /\ UNCHANGED <<width, height, pixels, originClean, toolSelect, colorInput,
                   interval, placeholder>>
    /\ last' = Outcome("Line", FALSE, 0, NoError)
    /\ MouseDown(<<>>)

\* tools.Erase (174-179)
PressErase(e) ==
    /\ Dispatch(e, "Erase", TRUE)
    /\ LineHandler(e, "Erase", [cx EXCEPT !.globalCompositeOperation = "destination-out"])
    /\ fillRun' = NoRun
    /\ UNCHANGED <<width, height, pixels, originClean, toolSelect, colorInput,
                   interval, placeholder>>
    /\ last' = Outcome("Erase", FALSE, 0, NoError)
    /\ MouseDown(<<>>)

\* what prompt('Text:', "") returns; null and "" are both falsy
Texts == {"", "abc"}

\* tools.Text (316-323)
PressText(e, text) ==
    /\ Dispatch(e, "Text", FALSE)
    /\ IF text # ""
       THEN /\ pixels' \in fillText(pixels, width, height, Pos(e), cx)
            /\ fillRun' = NoRun
            /\ MouseDown(<<FillTextOp(cx)>>)
       ELSE /\ UNCHANGED <<pixels, fillRun>>
            /\ MouseDown(<<>>)
    /\ UNCHANGED <<width, height, originClean, cx, toolSelect, colorInput, listeners,
                   drag, interval, placeholder>>
    /\ last' = Outcome("Text", FALSE, 0, NoError)

\* tools.Spray (333-351)
PressSpray(e) ==
    /\ Dispatch(e, "Spray", TRUE)
    /\ drag' = [NoDrag EXCEPT !.onMove = "Spray", !.onEnd = "Spray", !.pos = Pos(e),
                              !.brush = cx.lineWidth]
    /\ interval' = TRUE
    /\ listeners' = trackDrag(listeners)
    /\ fillRun' = NoRun
    /\ UNCHANGED <<width, height, pixels, originClean, cx, toolSelect, colorInput,
                   placeholder>>
    /\ last' = Outcome("Spray", FALSE, 0, NoError)
    /\ MouseDown(<<>>)

\* tools.Rectangle (378-409)
PressRectangle(e) ==
    /\ Dispatch(e, "Rectangle", TRUE)
    /\ drag' = [NoDrag EXCEPT !.onMove = "Rectangle", !.onEnd = "Rectangle",
                              !.start = Pos(e), !.page = Vector(e.clientX, e.clientY)]
    /\ placeholder' = Append(placeholder,
           [background |-> cx.fillStyle, left |-> e.clientX, top |-> e.clientY,
            width |-> 1, height |-> 1])
    /\ listeners' = trackDrag(listeners)
    /\ fillRun' = NoRun
    /\ UNCHANGED <<width, height, pixels, originClean, cx, toolSelect, colorInput,
                   interval>>
    /\ last' = Outcome("Rectangle", FALSE, 0, NoError)
    /\ MouseDown(<<>>)

\* tools['Color Matcher'] (501-507)
PressColorMatcher(e) ==
    /\ Dispatch(e, "Color Matcher", FALSE)
    /\ IF originClean
       THEN LET color == pixelColor(pixels, width, height, Pos(e))
            IN  /\ cx' = [cx EXCEPT !.fillStyle = ParseStyle(toContextString(color)),
                                    !.strokeStyle = ParseStyle(toContextString(color))]
                /\ colorInput' = toDOMString(color)
                /\ fillRun' = NoRun
                /\ UNCHANGED <<width, height, pixels, originClean, toolSelect,
                               listeners, drag, interval, placeholder>>
                /\ last' = Outcome("Color Matcher", FALSE, 0, NoError)
                /\ MouseDownRead(pixels, Pos(e), color)
       ELSE \E securityErrorBound \in BOOLEAN :
                LET failure == pixelColorFailure(securityErrorBound)
                IN  /\ fillRun' = NoRun
                    /\ UNCHANGED <<width, height, pixels, originClean, cx, toolSelect,
                                   colorInput, listeners, drag, interval, placeholder>>
                    /\ last' = Outcome("Color Matcher", TRUE, failure.notices,
                                       failure.thrown)
                    /\ MouseDown(<<>>)

\* tools.Fill (587-618)
PressFill(e) ==
    /\ Dispatch(e, "Fill", FALSE)
    /\ IF originClean
       THEN LET run == FillRun(pixels, width, height, Pos(e), cx.fillStyle,
                               cx.globalCompositeOperation)
                repeat == /\ fillRun.status = "returned"
                          /\ fillRun.origin = run.origin
                          /\ fillRun.fillStyle = run.fillStyle
            IN  /\ pixels' = run.px
                /\ fillRun' = [status |-> run.status, origin |-> run.origin,
                               matchColor |-> run.matchColor,
                               fillStyle |-> run.fillStyle, before |-> run.before,
                               searched |-> run.searched, reads |-> run.reads,
                               writes |-> run.writes, calls |-> run.calls,
                               repeat |-> repeat]
                /\ UNCHANGED <<width, height, originClean, cx, toolSelect, colorInput,
                               listeners, drag, interval, placeholder>>
                /\ last' = Outcome("Fill", FALSE, 0, NoError)
                /\ MouseDown(<<FillOp(cx)>>)
       ELSE \E securityErrorBound \in BOOLEAN :
                LET failure == pixelColorFailure(securityErrorBound)
                IN  /\ fillRun' = NoRun
                    /\ UNCHANGED <<width, height, pixels, originClean, cx, toolSelect,
                                   colorInput, listeners, drag, interval, placeholder>>
                    /\ last' = Outcome("Fill", TRUE, failure.notices, failure.thrown)
                    /\ MouseDown(<<>>)

\* tools[select.value] is undefined: calling it throws a TypeError (99)
PressUnregistered(e) ==
    /\ toolSelect \notin ToolNames
    /\ Dispatch(e, toolSelect, FALSE)
    /\ fillRun' = NoRun
    /\ UNCHANGED <<width, height, pixels, originClean, cx, toolSelect, colorInput,
                   listeners, drag, interval, placeholder>>
    /\ last' = Outcome("undefined", FALSE, 0, "TypeError")
    /\ MouseDown(<<>>)

\* the listener without the test of event.which, for a tool that opens a session
PressOtherDispatches(e, which) ==
    /\ e \in CanvasEvents(width, height)
    /\ which # 1
    /\ which \notin buttons
    /\ buttons' = buttons \cup {which}
    /\ gesture' = IF gesture.phase = "held" THEN [gesture EXCEPT !.other = TRUE]
                                          ELSE gesture
    /\ step' = [listener |-> "mousedown", which |-> which, ops |-> <<>>]
    /\ listeners' = trackDrag(listeners)
    /\ UNCHANGED <<width, height, pixels, originClean, cx, toolSelect, colorInput,
                   drag, interval, placeholder, calls, fillRun, pointer, applied>>
    /\ last' = Outcome(toolSelect, FALSE, 0, NoError)

\* event.which is not 1: the listener does nothing (98)
PressOther(e, which) ==
    /\ e \in CanvasEvents(width, height)
    /\ which # 1
    /\ which \notin buttons
    /\ buttons' = buttons \cup {which}
    /\ gesture' = IF gesture.phase = "held" THEN [gesture EXCEPT !.other = TRUE]
                                          ELSE gesture
    /\ step' = [listener |-> "mousedown", which |-> which, ops |-> <<>>]
    /\ UNCHANGED <<width, height, pixels, originClean, cx, toolSelect, colorInput,
                   listeners, drag, interval, placeholder, calls, fillRun, pointer,
                   applied>>
    /\ last' = Outcome("none", FALSE, 0, NoError)

(***************************************************************************)
(* mousemove on window: the onMove listeners of the open session.          *)
(***************************************************************************)
Move(e, onMove) ==
    /\ e \in WindowEvents(width, height)
    /\ gesture.moves < MaxMoves
    /\ "onMove" \in listeners.mousemove
    /\ drag.onMove = onMove
    /\ gesture' = [gesture EXCEPT !.moves = @ + 1]
    /\ calls' = Append(calls, [callback |-> "onMove", event |-> gesture.moves + 1])
    /\ last' = NoOutcome
    /\ fillRun' = NoRun
    /\ applied' = applied

\* the onMove of the open session ran and made the calls `ops`
OnMove(ops) ==
    step' = [listener |-> "onMove", tool |-> drag.onMove, onEnd |-> drag.onEnd,
             ops |-> ops]

\* the same for an onMove that draws from the position the session mapped
\* last before this event, prev
OnMoveFrom(prev, ops) ==
    step' = [listener |-> "onMove", tool |-> drag.onMove, onEnd |-> drag.onEnd,
             prev |-> prev, ops |-> ops]

\* the onMove of tools.Line without the assignment to pos
MoveLineStale(e) ==
    /\ Move(e, "Line")
    /\ pixels' \in stroke(pixels, width, height, drag.pos, Pos(e), cx)
    /\ OnMoveFrom(pointer.last, <<StrokeOp(drag.pos, Pos(e), cx)>>)
    /\ pointer' = [pointer EXCEPT !.last = Pos(e)]
    /\ UNCHANGED <<width, height, originClean, cx, toolSelect, colorInput, buttons,
                   listeners, drag, interval, placeholder>>

\* the onMove of tools.Line (157-163)
MoveLine(e) ==
    /\ Move(e, "Line")
    /\ pixels' \in stroke(pixels, width, height, drag.pos, Pos(e), cx)
    /\ OnMoveFrom(pointer.last, <<StrokeOp(drag.pos, Pos(e), cx)>>)
    /\ pointer' = [pointer EXCEPT !.last = Pos(e)]
    /\ drag' = [drag EXCEPT !.pos = Pos(e)]
    /\ UNCHANGED <<width, height, originClean, cx, toolSelect, colorInput, buttons,
                   listeners, interval, placeholder>>

\* the onMove of tools.Spray without the assignment to currentPos
MoveSprayStale(e) ==
    /\ Move(e, "Spray")
    /\ OnMove(<<>>)
    /\ pointer' = [pointer EXCEPT !.last = Pos(e)]
    /\ UNCHANGED <<width, height, pixels, originClean, cx, toolSelect, colorInput,
                   buttons, listeners, drag, interval, placeholder>>

\* the onMove of tools.Spray (346-348)
MoveSpray(e) ==
    /\ Move(e, "Spray")
    /\ OnMove(<<>>)
    /\ pointer' = [pointer EXCEPT !.last = Pos(e)]
    /\ drag' = [drag EXCEPT !.pos = Pos(e)]
    /\ UNCHANGED <<width, height, pixels, originClean, cx, toolSelect, colorInput,
                   buttons, listeners, interval, placeholder>>

\* the onMove of tools.Rectangle (393-403): restyles the closure's placeholder
MoveRectangle(e) ==
    /\ Move(e, "Rectangle")
    /\ OnMove(<<>>)
    /\ pointer' = pointer
    /\ LET pos == keepInBounds(Vector(e.clientX, e.clientY),
                               getBoundingClientRect(width, height))
           rect == rectangleFromPoints(drag.page, pos)
       IN  placeholder' = [placeholder EXCEPT ![Len(placeholder)] =
               [@ EXCEPT !.left = rect.left, !.top = rect.top,
                         !.width = rect.width, !.height = rect.height]]
    /\ UNCHANGED <<width, height, pixels, originClean, cx, toolSelect, colorInput,
                   buttons, listeners, drag, interval>>

\* a mousemove while no onMove listener is registered
MoveIdle(e) ==
    /\ e \in WindowEvents(width, height)
    /\ gesture.moves < MaxMoves
    /\ "onMove" \notin listeners.mousemove
    /\ gesture' = IF gesture.phase = "none" THEN gesture
                                            ELSE [gesture EXCEPT !.moves = @ + 1]
    /\ step' = NoStep
    /\ UNCHANGED <<width, height, pixels, originClean, cx, toolSelect, colorInput,
                   buttons, listeners, drag, interval, placeholder, calls, last,
                   fillRun, pointer, applied>>

(***************************************************************************)
(* mouseup on window: the end listener of trackDrag (135-141).             *)
(***************************************************************************)
Release(e, which) ==
    /\ e \in WindowEvents(width, height)
    /\ which \in buttons
    /\ buttons' = buttons \ {which}
    /\ gesture' = IF which = 1
                  THEN IF gesture.phase = "held"
                       THEN [gesture EXCEPT !.phase = "released",
                                            !.released = gesture.moves]
                       ELSE gesture
                  ELSE IF gesture.phase = "held" THEN [gesture EXCEPT !.other = TRUE]
                                                 ELSE gesture

\* the end listener of the open session ran for a release of button `which`
\* and made the calls `ops`; at is the position its onEnd mapped the event to,
\* NoPoint when it mapped none
\* registered: the window listeners left when `if(onEnd)` is reached (138)
End(which, at, ops) ==
    step' = [listener |-> "end", which |-> which, tool |-> drag.onMove,
             onEnd |-> drag.onEnd, press |-> pointer.press, at |-> at, ops |-> ops,
             registered |-> listeners']

\* end(event): both listeners are removed, then onEnd is called if supplied
DragEnd(e, which) ==
    /\ Release(e, which)
    /\ "end" \in listeners.mouseup
    /\ listeners' = endRemove(listeners)
    /\ drag' = IF "onMove" \in listeners'.mousemove THEN drag ELSE NoDrag
    /\ calls' = IF OnEndSupplied(drag)
                THEN Append(calls, [callback |-> "onEnd", event |-> gesture.moves])
                ELSE calls
    /\ CASE drag.onEnd = "Erase" ->
                \* the onEnd of tools.Erase (176-178)
                /\ cx' = [cx EXCEPT !.globalCompositeOperation = "source-over"]
                /\ End(which, NoPoint, <<>>)
                /\ UNCHANGED <<pixels, interval, placeholder>>
         [] drag.onEnd = "Spray" ->
                \* the onEnd of tools.Spray (348-350)
                /\ interval' = FALSE
                /\ End(which, NoPoint, <<>>)
                /\ UNCHANGED <<pixels, cx, placeholder>>
         [] drag.onEnd = "Rectangle" ->
                \* the onEnd of tools.Rectangle (403-408)
                /\ LET rect == rectangleFromPoints(drag.start, Pos(e))
                   IN  /\ pixels' = fillRect(pixels, width, height, rect.left,
                                              rect.top, rect.width, rect.height,
                                              cx.fillStyle, cx.globalCompositeOperation)
                       /\ End(which, Pos(e), <<FillRectOp(rect, cx)>>)
                /\ placeholder' = SubSeq(placeholder, 1, Len(placeholder) - 1)
                /\ UNCHANGED <<cx, interval>>
         [] OTHER ->
                /\ End(which, NoPoint, <<>>)
                /\ UNCHANGED <<pixels, cx, interval, placeholder>>
    /\ last' = NoOutcome
    /\ fillRun' = NoRun
    /\ pointer' = NoPointer
    /\ UNCHANGED <<width, height, originClean, toolSelect, colorInput, applied>>

\* a mouseup while no end listener is registered
ReleaseIdle(e, which) ==
    /\ Release(e, which)
    /\ "end" \notin listeners.mouseup
    /\ step' = NoStep
    /\ UNCHANGED <<width, height, pixels, originClean, cx, toolSelect, colorInput,
                   listeners, drag, interval, placeholder, calls, last, fillRun,
                   pointer, applied>>

\* the setInterval callback of tools.Spray (339-345)
SprayTick ==
    /\ interval
    /\ pixels' \in sprayDots(pixels, width, height, drag.pos, drag.brush, cx)
    /\ pixels' # pixels
    /\ last' = NoOutcome
    /\ fillRun' = NoRun
    /\ step' = [listener |-> "tick", ops |-> <<SprayOp(drag.pos, cx)>>]
    /\ UNCHANGED <<width, height, originClean, cx, toolSelect, colorInput, buttons,
                   listeners, drag, interval, placeholder, gesture, calls, pointer,
                   applied>>

(***************************************************************************)
(* The toolbar controls.  They are operated with the mouse, so they change *)
(* only while no mouse button is held; the history of the last gesture is  *)
(* dropped then.                                                           *)
(***************************************************************************)
\* the user picks an option of the tools <select>, or none is selected
SelectTool(value) ==
    /\ value \in SelectValues
    /\ buttons = {}
    /\ toolSelect' = value
    /\ UNCHANGED <<width, height, pixels, originClean, cx, colorInput, buttons,
                   listeners, drag, interval, placeholder>>
    /\ fillRun' = NoRun
    /\ gesture' = NoGesture
    /\ calls' = <<>>
    /\ step' = NoStep
    /\ pointer' = NoPointer
    /\ applied' = applied
    /\ last' = NoOutcome

\* the change listener of controls.color without its assignment to strokeStyle
ColorChangeFillOnly(color) ==
    /\ color \in InputColors
    /\ buttons = {}
    /\ colorInput' = toDOMString(color)
    /\ cx' = [cx EXCEPT !.fillStyle = ParseStyle(colorInput')]
    /\ last' = NoOutcome
    /\ fillRun' = NoRun
    /\ UNCHANGED <<width, height, pixels, originClean, toolSelect, buttons, listeners,
                   drag, interval, placeholder>>
    /\ gesture' = NoGesture
    /\ calls' = <<>>
    /\ step' = NoStep
    /\ pointer' = NoPointer
    /\ applied' = applied

\* the change listener of controls.color (190-193)
ColorChange(color) ==
    /\ color \in InputColors
    /\ buttons = {}
    /\ colorInput' = toDOMString(color)
    /\ cx' = [cx EXCEPT !.fillStyle = ParseStyle(colorInput'),
                        !.strokeStyle = ParseStyle(colorInput')]
    /\ last' = NoOutcome
    /\ fillRun' = NoRun
    /\ UNCHANGED <<width, height, pixels, originClean, toolSelect, buttons, listeners,
                   drag, interval, placeholder>>
    /\ gesture' = NoGesture
    /\ calls' = <<>>
    /\ step' = NoStep
    /\ pointer' = NoPointer
    /\ applied' = applied

\* the change listener of controls.brushSize (214-216)
BrushChange(size) ==
    /\ size \in BrushSizes
    /\ buttons = {}
    /\ cx' = [cx EXCEPT !.lineWidth = size]
    /\ last' = NoOutcome
    /\ fillRun' = NoRun
    /\ UNCHANGED <<width, height, pixels, originClean, toolSelect, colorInput, buttons,
                   listeners, drag, interval, placeholder>>
    /\ gesture' = NoGesture
    /\ calls' = <<>>
    /\ step' = NoStep
    /\ pointer' = NoPointer
    /\ applied' = applied

\* the images that controls.openFile and controls.openURL load
Images ==
    {[width |-> InitW + 1, height |-> InitH, crossOrigin |-> FALSE,
      data |-> [p \in Coords(InitW + 1, InitH) |-> White]],
     [width |-> InitW, height |-> InitH, crossOrigin |-> TRUE,
      data |-> [p \in Coords(InitW, InitH) |-> Blue]]}

\* the load listener without the three assignments after drawImage
LoadImageNoRestore(image) ==
    /\ image \in Images
    /\ width' = image.width
    /\ height' = image.height
    /\ pixels' = image.data
    /\ originClean' = ~image.crossOrigin
    /\ cx' = DefaultContext
    /\ last' = NoOutcome
    /\ fillRun' = NoRun
    /\ step' = [listener |-> "load", image |-> image, before |-> cx,
                ops |-> <<[op |-> "drawImage", gco |-> "source-over"]>>]
    /\ UNCHANGED <<toolSelect, colorInput, buttons, listeners, drag, interval,
                   placeholder, gesture, calls, pointer, applied>>

\* the load listener of loadImageURL (258-266): setting canvas.width clears
\* the bitmap and resets the context
LoadImage(image) ==
    /\ image \in Images
    /\ LET color == cx.fillStyle
           size == cx.lineWidth
       IN  /\ width' = image.width
           /\ height' = image.height
           /\ pixels' = image.data
           /\ originClean' = ~image.crossOrigin
           /\ cx' = [DefaultContext EXCEPT !.fillStyle = color, !.strokeStyle = color,
                                           !.lineWidth = size]
    /\ last' = NoOutcome
    /\ fillRun' = NoRun
    /\ step' = [listener |-> "load", image |-> image, before |-> cx,
                ops |-> <<[op |-> "drawImage", gco |-> "source-over"]>>]
    /\ UNCHANGED <<toolSelect, colorInput, buttons, listeners, drag, interval,
                   placeholder, gesture, calls, pointer, applied>>

Next ==
    \/ \E e \in WindowEvents(width, height) : PressLine(e)
    \/ \E e \in WindowEvents(width, height) : PressErase(e)
    \/ \E e \in WindowEvents(width, height), text \in Texts : PressText(e, text)
    \/ \E e \in WindowEvents(width, height) : PressSpray(e)
    \/ \E e \in WindowEvents(width, height) : PressRectangle(e)
    \/ \E e \in WindowEvents(width, height) : PressColorMatcher(e)
    \/ \E e \in WindowEvents(width, height) : PressFill(e)
    \/ \E e \in WindowEvents(width, height) : PressUnregistered(e)
    \/ \E e \in WindowEvents(width, height), which \in Buttons : PressOther(e, which)
    \/ \E e \in WindowEvents(width, height) : MoveLine(e)
    \/ \E e \in WindowEvents(width, height) : MoveSpray(e)
    \/ \E e \in WindowEvents(width, height) : MoveRectangle(e)
    \/ \E e \in WindowEvents(width, height) : MoveIdle(e)
    \/ \E e \in WindowEvents(width, height), which \in Buttons : DragEnd(e, which)
    \/ \E e \in WindowEvents(width, height), which \in Buttons : ReleaseIdle(e, which)
    \/ SprayTick
    \/ \E value \in SelectValues : SelectTool(value)
    \/ \E color \in InputColors : ColorChange(color)
    \/ \E size \in BrushSizes : BrushChange(size)
    \/ \E image \in Images : LoadImage(image)

Spec == Init /\ [][Next]_vars

(***************************************************************************)
(* Fill as a function of the surface, the origin and the fill color: the   *)
(* surface is any one an image load can leave on the canvas, and Fill is   *)
(* pressed once and then once more at the same origin.                     *)
(***************************************************************************)
\* the colors of the pixels of the surfaces drawn
Palette == {Transparent, Black, White}

\* the fill colors drawn: one that is on no surface, one that may be
FillStyles == {Red, Black}

\* the surfaces of the two scenarios: all white, and white with column
\* x = ScenarioSize \div 2 blue
ScenarioWhite == [p \in Coords(ScenarioSize, ScenarioSize) |-> White]

ScenarioColumn ==
    [p \in Coords(ScenarioSize, ScenarioSize) |->
        IF p.x = ScenarioSize \div 2 THEN Blue ELSE White]

InitFill ==
    /\ \/ /\ width \in 1 .. MaxPixels
          /\ height \in 1 .. MaxPixels
          /\ width * height <= MaxPixels
          /\ pixels \in [Coords(width, height) -> Palette]
       \/ /\ width = ScenarioSize
          /\ height = ScenarioSize
          /\ pixels \in {ScenarioWhite, ScenarioColumn}
    /\ originClean = TRUE
    /\ cx \in {[DefaultContext EXCEPT !.fillStyle = c, !.strokeStyle = c] :
                  c \in FillStyles}
    /\ toolSelect = "Fill"
    /\ colorInput = toDOMString(cx.fillStyle)
    /\ buttons = {}
    /\ listeners = NoListeners
    /\ drag = NoDrag
    /\ interval = FALSE
    /\ placeholder = <<>>
    /\ gesture = NoGesture
    /\ calls = <<>>
    /\ last = NoOutcome
    /\ fillRun = NoRun
    /\ step = NoStep
    /\ pointer = NoPointer
    /\ applied = NoApplied

\* the first Fill on the surface
FirstFill(e) ==
    /\ fillRun.status = "none"
    /\ PressFill(e)

\* Fill once more at the origin of the first Fill
SecondFill(e) ==
    /\ fillRun.status # "none"
    /\ ~fillRun.repeat
    /\ Pos(e) = fillRun.origin
    /\ PressFill(e)

NextFill ==
    \/ \E e \in WindowEvents(width, height) : FirstFill(e)
    \/ \E e \in WindowEvents(width, height) : SecondFill(e)
    \/ \E e \in WindowEvents(width, height), which \in Buttons : ReleaseIdle(e, which)

SpecFill == InitFill /\ [][NextFill]_vars

(***************************************************************************)
(* The helper functions on their own: keepInCanvasBounds and relativePos   *)
(* applied once to arguments in and around a canvas of up to MaxSize       *)
(* pixels a side.                                                          *)
(***************************************************************************)
PureSizes == 0 .. MaxSize

\* points up to two pixels outside the largest canvas
PurePoints == {Vector(x, y) : x, y \in (0 - 2) .. (MaxSize + 2)}

\* frames of a canvas of w x h pixels: placed at -1 .. 1, displayed from one
\* pixel smaller than the buffer to MaxSize pixels larger
PureRects(w, h) ==
    {[left |-> l, top |-> t, width |-> w + dx, height |-> h + dy,
      right |-> l + w + dx, bottom |-> t + h + dy] :
        l \in (0 - 1) .. 1, t \in {0, 1}, dx \in (0 - 1) .. MaxSize, dy \in {0, 1}}

PureEvents == {[clientX |-> p.x, clientY |-> p.y] : p \in PurePoints}

ApplyKeepInCanvasBounds(point, w, h) ==
    /\ applied = NoApplied
    /\ applied' = [fn |-> "keepInCanvasBounds", point |-> point, w |-> w, h |-> h,
                   once |-> keepInCanvasBounds(point, w, h),
                   twice |-> keepInCanvasBounds(keepInCanvasBounds(point, w, h), w, h)]
    /\ UNCHANGED <<width, height, pixels, originClean, cx, toolSelect, colorInput,
                   buttons, listeners, drag, interval, placeholder, gesture, calls,
                   last, fillRun, step, pointer>>

ApplyRelativePos(event, rect, w, h) ==
    /\ applied = NoApplied
    /\ applied' = [fn |-> "relativePos", event |-> event, rect |-> rect, w |-> w,
                   h |-> h, result |-> relativePos(event, rect, w, h)]
    /\ UNCHANGED <<width, height, pixels, originClean, cx, toolSelect, colorInput,
                   buttons, listeners, drag, interval, placeholder, gesture, calls,
                   last, fillRun, step, pointer>>

NextPure ==
    \/ \E point \in PurePoints, w, h \in PureSizes :
           ApplyKeepInCanvasBounds(point, w, h)
    \/ \E event \in PureEvents, w \in PureSizes :
           \E rect \in PureRects(w, MaxSize) : ApplyRelativePos(event, rect, w, MaxSize)

SpecPure == Init /\ [][NextPure]_vars

(***************************************************************************)
(* Properties of drag sessions and of the dispatch.                        *)
(***************************************************************************)
\* the tools whose handler passes an onEnd function to trackDrag
ToolsWithOnEnd == {"Erase", "Spray", "Rectangle"}

OnMoveCalls(n) == [i \in 1 .. n |-> [callback |-> "onMove", event |-> i]]

\* C1: in a press, N moves, release sequence with no other button involved,
\* onMove has been called once for each move so far, in their order, then
\* onEnd (if the tool supplies one) once at the release, and nothing after it.
C1_DragCallbacks ==
    (gesture.phase # "none" /\ ~gesture.other) =>
        IF gesture.phase = "held"
        THEN calls = OnMoveCalls(gesture.moves)
        ELSE calls = IF toolSelect \in ToolsWithOnEnd
                     THEN Append(OnMoveCalls(gesture.released),
                                 [callback |-> "onEnd", event |-> gesture.released])
                     ELSE OnMoveCalls(gesture.released)

\* a Rectangle session of one move is over and another move has arrived
C1_Witness ==
    /\ gesture.phase = "released"
    /\ ~gesture.other
    /\ toolSelect = "Rectangle"
    /\ gesture.released = 1
    /\ gesture.moves = 2
    /\ Len(calls) = 2

\* C9: a pixel read that is denied inside Color Matcher or Fill produces a
\* notice, changes nothing, and lets no error out of the handler.
C9_AccessDeniedHandled ==
    last.denied => (last.notices = 1 /\ ~last.changed /\ last.thrown = NoError)

\* C10: a primary press with an unregistered tool name selected is a silent
\* no-op: no error is raised and nothing changes.
C10_UnregisteredNoOp ==
    last.handler = "undefined" => (last.thrown = NoError /\ ~last.changed)

\* C11: in a Rectangle session the press and the moves draw nothing; the
\* release draws exactly one rectangle, the one spanned by the mapped press
\* point a and the mapped release point b (left = min x, top = min y,
\* width = |a.x - b.x|, height = |a.y - b.y|), and removes the preview.
C11_RectangleCommit ==
    /\ (step.listener = "mousedown" /\ last.handler = "Rectangle") =>
           (step.ops = <<>> /\ Len(placeholder) = 1)
    /\ (step.listener = "onMove" /\ step.tool = "Rectangle") =>
           (step.ops = <<>> /\ Len(placeholder) = 1)
    /\ (step.listener = "end" /\ step.tool = "Rectangle") =>
           LET a == step.press
               b == step.at
           IN  /\ Len(step.ops) = 1
               /\ step.ops[1].op = "fillRect"
               /\ step.ops[1].rect =
                      [left |-> Min(a.x, b.x), top |-> Min(a.y, b.y),
                       width |-> Abs(a.x - b.x), height |-> Abs(a.y - b.y)]
               /\ placeholder = <<>>
    /\ rectangleFromPoints(Vector(10, 10), Vector(40, 30)) =
           [left |-> 10, top |-> 10, width |-> 30, height |-> 20]

\* a Rectangle session of two moves has ended left of and below its press point
C11_Witness ==
    /\ step.listener = "end"
    /\ step.tool = "Rectangle"
    /\ step.which = 1
    /\ gesture.released = 2
    /\ step.at.x < step.press.x
    /\ step.at.y > step.press.y
    /\ step.ops[1].rect.left = step.at.x
    /\ step.ops[1].rect.width = 1
    /\ step.ops[1].rect.height = 1

\* C12: a session opened by a primary press stays open while the primary
\* button is held, whatever other buttons do (both listeners registered, onEnd
\* not called), and is closed once the primary button has been released.
C12_SessionWhilePrimaryHeld ==
    /\ gesture.phase = "held" =>
           /\ "onMove" \in listeners.mousemove
           /\ "end" \in listeners.mouseup
           /\ \A i \in DOMAIN calls : calls[i].callback # "onEnd"
    /\ gesture.phase = "released" => listeners = NoListeners

\* C13: the Spray timer runs only while the Spray session is open (it is
\* cleared by the end of the session, so no tick follows it), and every tick
\* sprays around the position the session mapped last: the press point or the
\* last move.
C13_SprayTimer ==
    /\ interval => ("end" \in listeners.mouseup /\ drag.onEnd = "Spray")
    /\ (step.listener = "end" /\ step.tool = "Spray") => ~interval
    /\ step.listener = "tick" =>
           /\ "end" \in listeners.mouseup
           /\ Len(step.ops) = 1
           /\ step.ops[1].op = "spray"
           /\ step.ops[1].center = pointer.last

\* a tick has sprayed around a position the pointer was moved to
C13_Witness ==
    /\ step.listener = "tick"
    /\ gesture.phase = "held"
    /\ gesture.moves >= 1
    /\ step.ops[1].center # pointer.press
    /\ step.ops[1].center = pointer.last

\* C14: every segment an Erase session draws is composited with
\* 'destination-out'; while no session is open the composite mode is
\* 'source-over'; and every drawing call outside an Erase session uses
\* 'source-over'.
C14_EraseComposite ==
    /\ (step.listener = "onMove" /\ step.onEnd = "Erase") =>
           \A i \in DOMAIN step.ops : step.ops[i].gco = "destination-out"
    /\ "end" \notin listeners.mouseup =>
           cx.globalCompositeOperation = "source-over"
    /\ ~(step.listener = "onMove" /\ step.onEnd = "Erase") =>
           \A i \in DOMAIN step.ops : step.ops[i].gco = "source-over"

\* C15: the bitmap always has the canvas's dimensions, and after an image load
\* the canvas has the image's dimensions and content while fill color, stroke
\* color and brush width are what they were before the load.
C15_ImageLoad ==
    /\ DOMAIN pixels = Coords(width, height)
    /\ step.listener = "load" =>
           /\ width = step.image.width
           /\ height = step.image.height
           /\ pixels = step.image.data
           /\ cx.fillStyle = step.before.fillStyle
           /\ cx.strokeStyle = step.before.strokeStyle
           /\ cx.lineWidth = step.before.lineWidth

\* the wider image was loaded with a color and a brush size other than the
\* defaults of a fresh context
C15_Witness ==
    /\ step.listener = "load"
    /\ step.image.width = InitW + 1
    /\ width = InitW + 1
    /\ step.before.fillStyle = Red
    /\ step.before.lineWidth = 2
    /\ cx.lineWidth = 2

\* C16: keepInCanvasBounds applied twice gives what it gives applied once; the
\* result lies in [0, W] x [0, H]; each axis is clamped by itself: a
\* coordinate within [0, dimension] is kept, one below becomes 0, one above
\* becomes the dimension.
C16_ClampIdempotent ==
    applied.fn = "keepInCanvasBounds" =>
        LET p == applied.point
            r == applied.once
        IN  /\ applied.twice = r
            /\ r.x >= 0 /\ r.x <= applied.w
            /\ r.y >= 0 /\ r.y <= applied.h
            /\ r.x = IF p.x < 0 THEN 0 ELSE IF p.x > applied.w THEN applied.w ELSE p.x
            /\ r.y = IF p.y < 0 THEN 0 ELSE IF p.y > applied.h THEN applied.h ELSE p.y

\* a point right of and above the canvas was clamped
C16_Witness ==
    /\ applied.fn = "keepInCanvasBounds"
    /\ applied.point.x > applied.w
    /\ applied.point.y < 0
    /\ applied.once = Vector(applied.w, 0)
    /\ applied.twice = Vector(applied.w, 0)

\* C17: relativePos returns, per axis, the floor of
\* raw - rect corner - (displayed size - buffer size) / 2, i.e. the integer r
\* with 2r <= 2(raw - corner) - (displayed - buffer) < 2r + 2; the frame's
\* top-left corner with no centering delta maps to (0, 0).
C17_RelativePos ==
    applied.fn = "relativePos" =>
        LET x2 == 2 * (applied.event.clientX - applied.rect.left)
                      - (applied.rect.width - applied.w)
            y2 == 2 * (applied.event.clientY - applied.rect.top)
                      - (applied.rect.height - applied.h)
            r == applied.result
        IN  /\ 2 * r.x <= x2 /\ x2 < 2 * r.x + 2
            /\ 2 * r.y <= y2 /\ y2 < 2 * r.y + 2
            /\ (/\ applied.event.clientX = applied.rect.left
                /\ applied.event.clientY = applied.rect.top
                /\ applied.rect.width = applied.w
                /\ applied.rect.height = applied.h) => r = Vector(0, 0)

\* a position left of the frame with a centering delta of one half was mapped
C17_Witness ==
    /\ applied.fn = "relativePos"
    /\ applied.rect.width - applied.w = 1
    /\ applied.event.clientX < applied.rect.left
    /\ applied.result.x < 0

\* C18: a press of a button other than the primary one runs no tool handler,
\* draws nothing, raises nothing and changes neither the canvas, the context,
\* the registered listeners nor the timer.
C18_PrimaryButtonOnly ==
    (step.listener = "mousedown" /\ step.which # 1) =>
        /\ last.handler = "none"
        /\ last.thrown = NoError
        /\ ~last.changed
        /\ step.ops = <<>>

\* the second button was pressed with Spray selected and nothing else held
C18_Witness ==
    /\ step.listener = "mousedown"
    /\ step.which = 2
    /\ toolSelect = "Spray"
    /\ buttons = {2}
    /\ listeners = NoListeners
    /\ ~interval

\* the tools whose handler opens a drag session
SessionTools == {"Line", "Erase", "Rectangle", "Spray"}

\* C19: whenever the primary button is up no session is open and no timer
\* runs, so every handler starts from Idle; after Line, Erase, Rectangle or
\* Spray one session is open (one onMove and one end listener, a timer for
\* Spray only); after Text, Color Matcher or Fill no listener and no timer is
\* registered.
C19_HandlerSessions ==
    /\ 1 \notin buttons => (listeners = NoListeners /\ ~interval)
    /\ (step.listener = "mousedown" /\ last.handler \in SessionTools) =>
           /\ listeners = [mousemove |-> {"onMove"}, mouseup |-> {"end"}]
           /\ interval <=> last.handler = "Spray"
    /\ (step.listener = "mousedown"
           /\ last.handler \in {"Text", "Color Matcher", "Fill"}) =>
           /\ listeners = NoListeners
           /\ ~interval

\* the Spray handler has returned with its session open
C19_Witness ==
    /\ step.listener = "mousedown"
    /\ last.handler = "Spray"
    /\ listeners = [mousemove |-> {"onMove"}, mouseup |-> {"end"}]
    /\ interval

\* C20: in a Line or Erase session every move draws exactly one segment, from
\* the position the session mapped last before it (the press point for the
\* first move, the end of the previous segment afterwards) to the mapped
\* position of the move; press and release draw nothing.
C20_LineContinuity ==
    /\ (step.listener = "onMove" /\ step.tool = "Line") =>
           /\ Len(step.ops) = 1
           /\ step.ops[1].op = "stroke"
           /\ step.ops[1].from = step.prev
           /\ step.ops[1].to = pointer.last
           /\ gesture.moves = 1 => step.ops[1].from = pointer.press
    /\ (step.listener = "mousedown" /\ last.handler \in {"Line", "Erase"}) =>
           step.ops = <<>>
    /\ (step.listener = "end" /\ step.tool = "Line") => step.ops = <<>>

\* the second move of a Line session has drawn from where the first ended,
\* away from the press point
C20_Witness ==
    /\ step.listener = "onMove"
    /\ step.tool = "Line"
    /\ gesture.moves = 2
    /\ step.prev # pointer.press
    /\ step.ops[1].from = step.prev
    /\ step.ops[1].to # step.ops[1].from

(***************************************************************************)
(* Properties of Color Matcher, the listeners and the context colors.      *)
(***************************************************************************)
\* the last event was a primary press that ran Color Matcher and its pixel
\* read succeeded
ColorMatched ==
    step.listener = "mousedown" /\ last.handler = "Color Matcher" /\ ~last.denied

\* C21: after a Color Matcher press at p whose pixel read succeeds, the fill
\* color and the stroke color equal the color sampled at p in all four
\* channels, the color input holds the sample's '#rrggbb' form, the bitmap is
\* the one before the press and no drag session is open.
C21_ColorMatcher ==
    ColorMatched =>
        /\ step.read.color = getImageData(step.read.before, width, height,
                                           step.read.coord)
        /\ ColorEquals(cx.fillStyle, step.read.color)
        /\ ColorEquals(cx.strokeStyle, step.read.color)
        /\ colorInput = toDOMString(step.read.color)
        /\ pixels = step.read.before
        /\ listeners = NoListeners
        /\ drag = NoDrag
        /\ ~interval

\* the position of callback `name` in the calls since the last press
CallsOf(name) == {i \in DOMAIN calls : calls[i].callback = name}

\* C22: while a drag session is open exactly its onMove and its end listener
\* are registered on window; when end runs both are gone before onEnd is
\* called, onEnd is called at most once and no onMove after it; with no
\* session open, and whenever no button is held, no listener is registered.
C22_ListenerBalance ==
    /\ drag.onMove # "none" =>
           listeners = [mousemove |-> {"onMove"}, mouseup |-> {"end"}]
    /\ drag.onMove = "none" => listeners = NoListeners
    /\ step.listener = "end" =>
           /\ step.registered = NoListeners
           /\ listeners = NoListeners
           /\ drag = NoDrag
           /\ step.onEnd # "none" =>
                  (calls # <<>> /\ calls[Len(calls)].callback = "onEnd")
    /\ Cardinality(CallsOf("onEnd")) <= 1
    /\ \A i \in CallsOf("onEnd"), j \in CallsOf("onMove") : j < i
    /\ buttons = {} => listeners = NoListeners

\* a Spray session of one move has ended on the release of its button and
\* left the window without listeners
C22_Witness ==
    /\ step.listener = "end"
    /\ step.tool = "Spray"
    /\ step.which = 1
    /\ buttons = {}
    /\ Len(calls) = 2
    /\ calls[1].callback = "onMove"
    /\ calls[2].callback = "onEnd"
    /\ listeners = NoListeners

\* C23: in every reachable state the stroke color equals the fill color, so
\* the load listener's restore of strokeStyle from the saved fillStyle gives
\* back the stroke color the context had before the load.
C23_StrokeIsFill ==
    /\ ColorEquals(cx.strokeStyle, cx.fillStyle)
    /\ step.listener = "load" =>
           /\ ColorEquals(cx.strokeStyle, step.before.strokeStyle)
           /\ ColorEquals(cx.fillStyle, step.before.fillStyle)

\* an image was loaded after the colors were changed from their defaults:
\* both are restored to the color set last
C23_Witness ==
    /\ step.listener = "load"
    /\ step.before.strokeStyle # DefaultContext.strokeStyle
    /\ cx.strokeStyle = step.before.strokeStyle
    /\ cx.fillStyle = cx.strokeStyle

(***************************************************************************)
(* Properties of Fill, stated on the run of the last Fill handler.         *)
(***************************************************************************)
Returned == fillRun.status = "returned"

OriginInBounds == InSurface(fillRun.origin, width, height)

Adjacent(p, q) ==
    \/ p.x = q.x /\ (p.y = q.y + 1 \/ q.y = p.y + 1)
    \/ p.y = q.y /\ (p.x = q.x + 1 \/ q.x = p.x + 1)

\* the pixels 4-connected to the pixels of `region` through pixels of color m
RECURSIVE Connected(_, _, _)
Connected(region, before, m) ==
    LET more == {p \in DOMAIN before :
                    before[p] = m /\ \E q \in region : Adjacent(p, q)}
    IN  IF more \subseteq region THEN region ELSE Connected(region \cup more, before, m)

\* the region of the origin on the surface before the fill
Region == Connected({fillRun.origin}, fillRun.before, fillRun.before[fillRun.origin])

\* C2: Fill changes only pixels of the origin's region: none of another
\* color, and none of the match color that is not 4-connected to the origin.
C2_FillContained ==
    (Returned /\ OriginInBounds) =>
        \A p \in DOMAIN pixels : pixels[p] # fillRun.before[p] => p \in Region

\* C3: after Fill every pixel of the origin's region has the fill color.
C3_FillCoversRegion ==
    (Returned /\ OriginInBounds) =>
        \A p \in Region : pixels[p] = fillRun.fillStyle

\* a region of three pixels or more that reaches a corner has been filled
C3_Witness ==
    /\ Returned
    /\ OriginInBounds
    /\ fillRun.fillStyle # fillRun.matchColor
    /\ Cardinality(Region) >= 3
    /\ Vector(0, 0) \in Region
    /\ fillRun.origin # Vector(0, 0)
    /\ \A p \in Region : pixels[p] = fillRun.fillStyle

\* C4: no coordinate is handed to pixelColor twice during one Fill.
C4_ReadAtMostOnce ==
    Returned =>
        \A i, j \in DOMAIN fillRun.reads :
            fillRun.reads[i] = fillRun.reads[j] => i = j

\* C5: `searched` never holds more than W x H coordinates, and holds exactly
\* ScenarioSize^2 after Fill at the centre of the all-white scenario surface.
C5_SearchedBound ==
    Returned =>
        /\ Cardinality(fillRun.searched) <= width * height
        /\ (/\ fillRun.before = ScenarioWhite
            /\ fillRun.origin = Vector(ScenarioSize \div 2, ScenarioSize \div 2)
            /\ fillRun.fillStyle = Red)
           => Cardinality(fillRun.searched) = ScenarioSize * ScenarioSize

\* C6: every coordinate Fill hands to pixelColor or fillRect is on the surface.
C6_AccessInBounds ==
    (Returned /\ OriginInBounds) =>
        /\ \A i \in DOMAIN fillRun.reads : InSurface(fillRun.reads[i], width, height)
        /\ \A i \in DOMAIN fillRun.writes : InSurface(fillRun.writes[i], width, height)

\* C7: Fill repeated at the same origin with the same color on the surface
\* the first Fill left changes no pixel.
C7_FillIdempotent ==
    (Returned /\ fillRun.repeat) => pixels = fillRun.before

\* a repeated Fill whose first run painted has returned
C7_Witness ==
    /\ Returned
    /\ fillRun.repeat
    /\ fillRun.matchColor = fillRun.fillStyle
    /\ Len(fillRun.writes) >= 3
    /\ \E p \in DOMAIN pixels : pixels[p] # fillRun.fillStyle

\* C8: Fill returns, after at most one call of flood per coordinate of
\* [0, W] x [0, H] and one more.
C8_FillTerminates ==
    fillRun.status # "none" =>
        /\ fillRun.status = "returned"
        /\ fillRun.calls <= (width + 1) * (height + 1) + 1

\* Fill with the origin's own color, at a corner, has returned
C8_Witness ==
    /\ Returned
    /\ fillRun.origin = Vector(0, 0)
    /\ fillRun.matchColor = fillRun.fillStyle
    /\ fillRun.calls >= 2

====
